---- MODULE Spec2Model ----
(***************************************************************************)
(* bSpheres add-on (src/__init__.py): the Create operator                  *)
(* MESH_OT_PrimitiveBSphereAdd, the Finalize operator                      *)
(* OBJECT_OT_ApplyBSphereModifiers and the panel VIEW3D_PT_BSpheresPanel,  *)
(* run against a scene of objects, each with a mesh and a modifier stack.  *)
(* Each operator is a sequence of steps (pc); the host is single-threaded, *)
(* so nothing else happens while an operator runs.  Host primitives        *)
(* (object_data_add, modifiers.new/get, modifier_apply, voxel_remesh,      *)
(* mode_set, select_all, skin_root_mark) are modelled by their contract at *)
(* the line that calls them; a bake or a remesh may succeed or fail with a *)
(* RuntimeError.  Voxel sizes are in thousandths (0.05 is 50).             *)
(***************************************************************************)
EXTENDS Integers, Sequences, FiniteSets, TLC

\* ---------------------------------------------------------------- bounds
MaxSteps == 5

\* ---------------------------------------------------- program constants
VoxelDefault == 50
VoxelMin == 1
VoxelMax == 1000
CreateLevels == 2
CreateRenderLevels == 2

\* voxel_size: FloatProperty(default=0.05, min=0.001, max=1.0)
VoxelSizes == {VoxelMin, VoxelDefault, VoxelMax}

\* values the artist can type into the "Subd Level" control
Levels == {1, 2, 3}

\* context.space_data.type of the region an operator is invoked from
SpaceTypes == {"VIEW_3D", "OTHER"}

VARIABLES
    objs,        \* the scene: sequence of objects (type, modifiers, mesh data)
    active,      \* context.object / context.active_object: index into objs, 0 is None
    mode,        \* context.mode: "OBJECT" or "EDIT_MESH"
    show_xray,   \* space_data.shading.show_xray of the 3D viewport
    panel,       \* the layout the panel drew last; <<>> when a redraw is pending
    steps,       \* artist actions so far: edits and operator invocations
    pc,          \* position of the running operator, "idle" when none runs
    obj,         \* local variable obj of the running operator (index, 0 if unset)
    space,       \* context.space_data.type seen by the running operator
    voxel_size,  \* self.voxel_size of the running Finalize
    mod_i,       \* loop position in modifiers_to_apply (1..3) of the running Finalize
    reports,     \* self.report(...) calls of the running operator, in order
    raised,      \* exception that escaped execute(): "" or "AttributeError"
    calls,       \* host calls made by the running operator, in order
    newpt,       \* index (in obj's mesh) of the point made by the running Create
    snap,        \* the running Finalize: the stack it started on (start) and the
                 \* stack and geometry its bake loop left (mods, geom)
    hist         \* what has happened so far: the Mark Loose / Clear Loose pair
                 \* in progress (pair), the objects a Finalize has completed on
                 \* since their last Create (done), and those of them whose
                 \* last Finalize saw no failed bake of Mirror or Skin (clean)

vars == <<objs, active, mode, show_xray, panel, steps, pc, obj, space,
          voxel_size, mod_i, reports, raised, calls, newpt, snap, hist>>

locals == <<obj, space, voxel_size, mod_i, reports, raised, calls, newpt, snap>>

\* ------------------------------------------------------------ modifiers
FFF == <<FALSE, FALSE, FALSE>>

ModName(base, n) == [base |-> base, n |-> n]

\* the name as the source writes it: "Mirror", "Skin", "Subdivision"
Named(base) == ModName(base, 0)

\* result of modifiers.get() when nothing has that name (None, falsy)
NoMod ==
    [name |-> ModName("", 0), type |-> "NONE", use_axis |-> FFF,
     symmetry |-> FFF, levels |-> 0, render_levels |-> 0]

\* obj.modifiers.get(name): the modifier with exactly that name, else None
modifiers_get(mods, base) ==
    IF \E i \in DOMAIN mods : mods[i].name = Named(base)
    THEN mods[CHOOSE i \in DOMAIN mods : mods[i].name = Named(base)]
    ELSE NoMod

\* truth value of a modifier reference: None is false, a modifier is true
Truthy(m) == m.type # "NONE"

\* the host makes a new modifier's name unique within the stack:
\* "Mirror", then "Mirror.001", "Mirror.002", ...
UniqueName(mods, base) ==
    LET used == {mods[i].name.n : i \in {j \in DOMAIN mods : mods[j].name.base = base}}
    IN  ModName(base, CHOOSE k \in 0..Len(mods) :
                        k \notin used /\ \A j \in 0..(k - 1) : j \in used)

\* obj.modifiers.new(name, type): appended at the end, with the host's
\* defaults for its type (Mirror X on, Skin X symmetry on, Subsurf 1/2)
modifiers_new(mods, base, type) ==
    Append(mods,
        [name |-> UniqueName(mods, base), type |-> type,
         use_axis |-> IF type = "MIRROR" THEN <<TRUE, FALSE, FALSE>> ELSE FFF,
         symmetry |-> IF type = "SKIN" THEN <<TRUE, FALSE, FALSE>> ELSE FFF,
         levels |-> IF type = "SUBSURF" THEN 1 ELSE 0,
         render_levels |-> IF type = "SUBSURF" THEN 2 ELSE 0])

\* one host call in the log of the running operator: what was called, on
\* what, with what value, and whether it returned (ok) or raised
Call(op, arg, val, ok) == [op |-> op, arg |-> arg, val |-> val, ok |-> ok]

RemoveAt(s, i) == SubSeq(s, 1, i - 1) \o SubSeq(s, i + 1, Len(s))

\* the stack without the modifier of that exact name
RemoveNamed(mods, base) ==
    RemoveAt(mods, CHOOSE i \in DOMAIN mods : mods[i].name = Named(base))

\* ------------------------------------------------------------- objects
\* bm.verts.new((0,0,0)); bm.to_mesh(mesh): one point, no edges, no faces,
\* not selected, no skin flags; remesh_voxel_size at the host default 0.1
NewBSphereObject ==
    [type |-> "MESH", mods |-> <<>>, nverts |-> 1, edges |-> {}, nfaces |-> 0,
     sel |-> {}, root |-> {}, loose |-> {}, baked |-> <<>>, remeshed |-> 0,
     remesh_voxel_size |-> 100]

\* an object without mesh data (obj.data is None), as the scene may hold
EmptyObject ==
    [type |-> "EMPTY", mods |-> <<>>, nverts |-> 0, edges |-> {}, nfaces |-> 0,
     sel |-> {}, root |-> {}, loose |-> {}, baked |-> <<>>, remeshed |-> 0,
     remesh_voxel_size |-> 0]

Verts(o) == 1..o.nverts

\* o with its mesh geometry replaced by the remeshed solid at voxel size v
Remeshed(o, v) == [o EXCEPT !.remeshed = v]

\* the geometry of an object's mesh: points, edges, faces, what was baked
\* into it, and the voxel size it was last remeshed at (0: never)
Geometry(o) ==
    [nverts |-> o.nverts, edges |-> o.edges, nfaces |-> o.nfaces,
     baked |-> o.baked, remeshed |-> o.remeshed]

NoSnap == [start |-> <<>>, mods |-> <<>>, geom |-> Geometry(EmptyObject)]

\* no Mark Loose / Clear Loose pair in progress
NoPair == [stage |-> "none", sel |-> {}, loose0 |-> {}]

NoHist == [pair |-> NoPair, done |-> {}, clean |-> {}]

\* any artist action or operator invocation ends a pair in progress
PairEnds == hist' = [hist EXCEPT !.pair = NoPair]

RECURSIVE Grow(_, _, _, _)
Grow(S, E, n, k) ==
    IF k = 0 THEN S
    ELSE Grow(S \cup {w \in 1..n : \E u \in S : {u, w} \in E}, E, n, k - 1)

\* the points connected to v by edges, v included
Component(o, v) == Grow({v}, o.edges, o.nverts, o.nverts)

\* bpy.ops.object.skin_root_mark(): each selected point not yet visited
\* becomes root and every other point connected to it loses the root flag
RECURSIVE RootMark(_, _, _, _)
RootMark(o, v, root, visited) ==
    IF v > o.nverts THEN root
    ELSE IF v \in o.sel /\ v \notin visited
         THEN RootMark(o, v + 1, (root \ Component(o, v)) \cup {v},
                       visited \cup Component(o, v))
         ELSE RootMark(o, v + 1, root, visited)

skin_root_mark(o) == [o EXCEPT !.root = RootMark(o, 1, o.root, {})]

\* a slip: select_all(action='DESELECT')
select_all_Deselect(o) == [o EXCEPT !.sel = {}]

\* bpy.ops.mesh.select_all(action='SELECT')
select_all(o) == [o EXCEPT !.sel = Verts(o)]

\* ------------------------------------------------------------- context
context_object == active

HasObject == context_object # 0

ActiveIsMesh == HasObject /\ objs[active].type = "MESH"

ResetLocals ==
    /\ obj' = 0
    /\ space' = "VIEW_3D"
    /\ voxel_size' = VoxelDefault
    /\ mod_i' = 1
    /\ reports' = <<>>
    /\ raised' = ""
    /\ calls' = <<>>
    /\ newpt' = 0
    /\ snap' = NoSnap

Init ==
    /\ objs = <<EmptyObject>>
    /\ active \in {0, 1}
    /\ mode = "OBJECT"
    /\ show_xray \in BOOLEAN
    /\ panel = <<>>
    /\ steps = 0
    /\ pc = "idle"
    /\ obj = 0
    /\ space = "VIEW_3D"
    /\ voxel_size = VoxelDefault
    /\ mod_i = 1
    /\ reports = <<>>
    /\ raised = ""
    /\ calls = <<>>
    /\ newpt = 0
    /\ snap = NoSnap
    /\ hist = NoHist

\* ---------------------------------------------- Create (lines 80-134)
\* MESH_OT_PrimitiveBSphereAdd defines no poll(): the host's default lets
\* the operator run in every context
MESH_OT_PrimitiveBSphereAdd_poll == TRUE

\* the host helper joins the new mesh into the active object when that
\* object is of the same type and in edit mode; otherwise it links a new
\* object and makes it active
JoinsIntoActive == HasObject /\ objs[active].type = "MESH" /\ mode = "EDIT_MESH"

Create_Invoke ==
    /\ pc = "idle"
    /\ MESH_OT_PrimitiveBSphereAdd_poll
    /\ \E sp \in SpaceTypes : space' = sp
    /\ steps < MaxSteps
    /\ steps' = steps + 1
    /\ pc' = "c_add"
    /\ panel' = <<>>
    /\ UNCHANGED <<objs, active, mode, show_xray, obj, voxel_size,
                   mod_i, reports, raised, calls, newpt, snap>>
    /\ PairEnds

\* lines 90-102: new one-point mesh, object_data_add, obj = active_object
Create_AddObject ==
    /\ pc = "c_add"
    /\ IF JoinsIntoActive
       THEN /\ objs' = [objs EXCEPT ![active] =
                            [@ EXCEPT !.nverts = @ + 1, !.sel = {}]]
            /\ active' = active
            /\ newpt' = objs[active].nverts + 1
            /\ hist' = [hist EXCEPT !.done = @ \ {active},
                                    !.clean = @ \ {active}]
       ELSE /\ objs' = Append(objs, NewBSphereObject)
            /\ active' = Len(objs) + 1
            /\ newpt' = 1
            /\ hist' = hist
    /\ obj' = active'
    /\ calls' = Append(calls, Call("object_data_add", "", 0, TRUE))
    /\ pc' = "c_mirror"
    /\ UNCHANGED <<mode, show_xray, panel, steps, space, voxel_size, mod_i,
                   reports, raised, snap>>

\* lines 106-107
AddMirror(mods) ==
    LET m == modifiers_new(mods, "Mirror", "MIRROR")
    IN  [m EXCEPT ![Len(m)].use_axis = <<TRUE, FALSE, FALSE>>]

\* lines 110-113
AddSkin(mods) ==
    LET m == modifiers_new(mods, "Skin", "SKIN")
    IN  [m EXCEPT ![Len(m)].symmetry = <<FALSE, FALSE, FALSE>>]

\* lines 118-120
AddSubdivision(mods) ==
    LET m == modifiers_new(mods, "Subdivision", "SUBSURF")
    IN  [m EXCEPT ![Len(m)].levels = CreateLevels,
                  ![Len(m)].render_levels = CreateRenderLevels]

CreateStep(from, to, newobjs, call) ==
    /\ pc = from
    /\ objs' = newobjs
    /\ calls' = Append(calls, call)
    /\ pc' = to
    /\ UNCHANGED <<active, mode, show_xray, panel, steps, obj, space,
                   voxel_size, mod_i, reports, raised, newpt, snap, hist>>

Create_Mirror ==
    CreateStep("c_mirror", "c_skin",
               [objs EXCEPT ![obj].mods = AddMirror(@)], Call("modifiers.new", "Mirror", 0, TRUE))

Create_Skin ==
    CreateStep("c_skin", "c_sub",
               [objs EXCEPT ![obj].mods = AddSkin(@)], Call("modifiers.new", "Skin", 0, TRUE))

Create_Subdivision ==
    CreateStep("c_sub", "c_mode",
               [objs EXCEPT ![obj].mods = AddSubdivision(@)],
               Call("modifiers.new", "Subdivision", 0, TRUE))

\* line 123: bpy.ops.object.mode_set(mode='EDIT')
Create_ModeSet ==
    /\ pc = "c_mode"
    /\ mode' = "EDIT_MESH"
    /\ calls' = Append(calls, Call("mode_set", "EDIT", 0, TRUE))
    /\ pc' = "c_select"
    /\ UNCHANGED <<objs, active, show_xray, panel, steps, obj, space,
                   voxel_size, mod_i, reports, raised, newpt, snap, hist>>

\* line 127
Create_SelectAll ==
    CreateStep("c_select", "c_root",
               [objs EXCEPT ![active] = select_all(@)], Call("select_all", "SELECT", 0, TRUE))

\* line 128
Create_RootMark ==
    CreateStep("c_root", "c_xray",
               [objs EXCEPT ![active] = skin_root_mark(@)], Call("skin_root_mark", "", 0, TRUE))

\* a slip: the shading switched without the test of line 131
Create_XRay_Always ==
    /\ pc = "c_xray"
    /\ show_xray' = TRUE
    /\ pc' = "c_done"
    /\ UNCHANGED <<objs, active, mode, panel, steps, obj, space, voxel_size,
                   mod_i, reports, raised, calls, newpt, snap, hist>>

\* lines 131-134
Create_XRay ==
    /\ pc = "c_xray"
    /\ show_xray' = IF space = "VIEW_3D" THEN TRUE ELSE show_xray
    /\ pc' = "c_done"
    /\ UNCHANGED <<objs, active, mode, panel, steps, obj, space, voxel_size,
                   mod_i, reports, raised, calls, newpt, snap, hist>>

\* -------------------------------------------- Finalize (lines 28-77)
\* a slip: poll() without the mode test
OBJECT_OT_ApplyBSphereModifiers_poll_AnyMode == context_object # 0

\* lines 43-45
OBJECT_OT_ApplyBSphereModifiers_poll == context_object # 0 /\ mode = "OBJECT"

\* a slip: the last name left out of the list
modifiers_to_apply_NoSubdivision == <<"Mirror", "Skin">>

\* a slip in the list: the Subdivision stage looked up under its type's name
modifiers_to_apply_Subsurf == <<"Mirror", "Skin", "Subsurf">>

\* line 56
modifiers_to_apply == <<"Mirror", "Skin", "Subdivision">>

Report(level, text, arg) == [level |-> level, text |-> text, arg |-> arg]

Fin_Invoke ==
    /\ pc = "idle"
    /\ OBJECT_OT_ApplyBSphereModifiers_poll
    /\ \E sp \in SpaceTypes : space' = sp
    /\ \E v \in VoxelSizes : voxel_size' = v
    /\ steps < MaxSteps
    /\ steps' = steps + 1
    /\ pc' = "f_start"
    /\ panel' = <<>>
    /\ UNCHANGED <<objs, active, mode, show_xray, obj, mod_i, reports,
                   raised, calls, newpt, snap>>
    /\ PairEnds

\* lines 48-56: obj = context.object; X-ray off in a 3D viewport
Fin_Start ==
    /\ pc = "f_start"
    /\ obj' = context_object
    /\ show_xray' = IF space = "VIEW_3D" THEN FALSE ELSE show_xray
    /\ calls' = IF space = "VIEW_3D"
                THEN Append(calls, Call("show_xray", "False", 0, TRUE)) ELSE calls
    /\ mod_i' = 1
    /\ snap' = [snap EXCEPT !.start = objs[context_object].mods]
    /\ pc' = "f_bake"
    /\ UNCHANGED <<objs, active, mode, panel, steps, space, voxel_size,
                   reports, raised, newpt, hist>>

\* the stage the loop of lines 58-64 is at
mod_name == modifiers_to_apply[mod_i]

\* line 59-60: mod = obj.modifiers.get(mod_name); if mod:
BakeAttempted == Truthy(modifiers_get(objs[obj].mods, mod_name))

\* the loop moves to the next name, or ends and leaves what it baked
LoopAdvance ==
    IF mod_i < Len(modifiers_to_apply)
    THEN /\ mod_i' = mod_i + 1
         /\ pc' = "f_bake"
         /\ snap' = snap
    ELSE /\ mod_i' = mod_i
         /\ pc' = "f_voxel"
         /\ snap' = [snap EXCEPT !.mods = objs'[obj].mods,
                                  !.geom = Geometry(objs'[obj])]

\* a slip: the try wraps the whole loop, so the first failure ends it
AfterFailure_Abort ==
    /\ mod_i' = mod_i
    /\ pc' = "f_voxel"
    /\ snap' = [snap EXCEPT !.mods = objs'[obj].mods,
                             !.geom = Geometry(objs'[obj])]

\* lines 63-64 sit inside the loop body: after the warning the loop goes on
AfterFailure == LoopAdvance

\* line 60: no modifier of that name, nothing is attempted
Fin_BakeSkip ==
    /\ pc = "f_bake"
    /\ ~BakeAttempted
    /\ objs' = objs
    /\ LoopAdvance
    /\ UNCHANGED <<active, mode, show_xray, panel, steps, obj, space,
                   voxel_size, reports, raised, calls, newpt, hist>>

\* a slip: the bake made with the host's keep_modifier option, which
\* leaves the modifier on the stack
Applied_KeepsModifier(o, base) ==
    [o EXCEPT !.baked = Append(@, modifiers_get(o.mods, base).type)]

\* obj after bpy.ops.object.modifier_apply(modifier=name) succeeded: the
\* modifier's effect is in the mesh and the modifier is off the stack
Applied(o, base) ==
    [o EXCEPT !.mods = RemoveNamed(@, base),
              !.baked = Append(@, modifiers_get(o.mods, base).type)]

\* line 62 returns normally
Fin_BakeOk ==
    /\ pc = "f_bake"
    /\ BakeAttempted
    /\ objs' = [objs EXCEPT ![obj] = Applied(@, mod_name)]
    /\ calls' = Append(calls, Call("modifier_apply", mod_name, 0, TRUE))
    /\ LoopAdvance
    /\ UNCHANGED <<active, mode, show_xray, panel, steps, obj, space,
                   voxel_size, reports, raised, newpt, hist>>

\* a slip: the handler of lines 63-64 written as a bare pass
Fin_BakeFail_Silent ==
    /\ pc = "f_bake"
    /\ BakeAttempted
    /\ objs' = objs
    /\ calls' = Append(calls, Call("modifier_apply", mod_name, 0, FALSE))
    /\ AfterFailure
    /\ UNCHANGED <<active, mode, show_xray, panel, steps, obj, space,
                   voxel_size, reports, raised, newpt, hist>>

\* line 62 raises RuntimeError; lines 63-64 report it and the loop goes on
Fin_BakeFail ==
    /\ pc = "f_bake"
    /\ BakeAttempted
    /\ objs' = objs
    /\ calls' = Append(calls, Call("modifier_apply", mod_name, 0, FALSE))
    /\ reports' = Append(reports,
                         Report("WARNING", "Could not apply modifier: ", mod_name))
    /\ AfterFailure
    /\ UNCHANGED <<active, mode, show_xray, panel, steps, obj, space,
                   voxel_size, raised, newpt, hist>>

\* line 68: mesh = obj.data is a Mesh only for a mesh object; every other
\* data (None for an empty) has no attribute remesh_voxel_size to assign
HasRemeshVoxelSize(o) == o.type = "MESH"

\* the stages whose bake raised in the running Finalize
FailedBakes ==
    {calls[i].arg : i \in {j \in DOMAIN calls :
                              calls[j].op = "modifier_apply" /\ ~calls[j].ok}}

\* execute() ends on obj: a Finalize has completed on it, and it saw no
\* failed bake of the two stages the panel's gate looks at, or it saw one
FinalizeCompletes ==
    hist' = [hist EXCEPT
                !.done = @ \cup {obj},
                !.clean = IF FailedBakes \cap {"Mirror", "Skin"} = {}
                          THEN @ \cup {obj}
                          ELSE @ \ {obj}]

\* lines 68-69: mesh.remesh_voxel_size = self.voxel_size
Fin_SetVoxel ==
    /\ pc = "f_voxel"
    /\ HasRemeshVoxelSize(objs[obj])
    /\ objs' = [objs EXCEPT ![obj].remesh_voxel_size = voxel_size]
    /\ calls' = Append(calls, Call("remesh_voxel_size", "", voxel_size, TRUE))
    /\ pc' = "f_remesh"
    /\ UNCHANGED <<active, mode, show_xray, panel, steps, obj, space,
                   voxel_size, mod_i, reports, raised, newpt, snap, hist>>

\* line 69 raises AttributeError, which no handler of execute() catches
Fin_SetVoxelRaises ==
    /\ pc = "f_voxel"
    /\ ~HasRemeshVoxelSize(objs[obj])
    /\ raised' = "AttributeError"
    /\ pc' = "f_done"
    /\ UNCHANGED <<objs, active, mode, show_xray, panel, steps, obj, space,
                   voxel_size, mod_i, reports, calls, newpt, snap>>
    /\ FinalizeCompletes

\* lines 72-73 and 77: the remesh succeeds
Fin_RemeshOk ==
    /\ pc = "f_remesh"
    /\ objs' = [objs EXCEPT ![obj] = Remeshed(@, @.remesh_voxel_size)]
    /\ calls' = Append(calls, Call("voxel_remesh", "", 0, TRUE))
    /\ reports' = Append(reports,
                         Report("INFO", "bSphere mesh applied and remeshed.", ""))
    /\ pc' = "f_done"
    /\ UNCHANGED <<active, mode, show_xray, panel, steps, obj, space,
                   voxel_size, mod_i, raised, newpt, snap>>
    /\ FinalizeCompletes

\* a slip: the success report placed after the try block, so that it
\* follows the ERROR as well
Fin_RemeshFail_ThenInfo ==
    /\ pc = "f_remesh"
    /\ calls' = Append(calls, Call("voxel_remesh", "", 0, FALSE))
    /\ reports' = reports \o <<Report("ERROR", "Remesh failed: ", ""),
                               Report("INFO", "bSphere mesh applied and remeshed.", "")>>
    /\ pc' = "f_done"
    /\ UNCHANGED <<objs, active, mode, show_xray, panel, steps, obj, space,
                   voxel_size, mod_i, raised, newpt, snap>>
    /\ FinalizeCompletes

\* lines 72, 74-75 and 77: the remesh raises RuntimeError
Fin_RemeshFail ==
    /\ pc = "f_remesh"
    /\ calls' = Append(calls, Call("voxel_remesh", "", 0, FALSE))
    /\ reports' = Append(reports, Report("ERROR", "Remesh failed: ", ""))
    /\ pc' = "f_done"
    /\ UNCHANGED <<objs, active, mode, show_xray, panel, steps, obj, space,
                   voxel_size, mod_i, raised, newpt, snap>>
    /\ FinalizeCompletes

\* execute() has returned to the host (or its exception has reached it)
Return ==
    /\ pc \in {"c_done", "f_done"}
    /\ pc' = "idle"
    /\ ResetLocals
    /\ UNCHANGED <<objs, active, mode, show_xray, panel, steps, hist>>

\* ----------------------------------------------- Panel (lines 137-214)
Range(s) == {s[i] : i \in DOMAIN s}

\* lines 149-153
CreationSection ==
    <<"label:Create Base:", "operator:mesh.primitive_bsphere_add", "separator">>

\* a slip: "and" where line 160 has "or"
has_bsphere_setup_And(mods) ==
    Truthy(modifiers_get(mods, "Skin")) /\ Truthy(modifiers_get(mods, "Mirror"))

\* lines 157-161
has_bsphere_setup(mods) ==
    Truthy(modifiers_get(mods, "Skin")) \/ Truthy(modifiers_get(mods, "Mirror"))

\* the three toggles of lines 172-174, by axis index 0..2 given as 1..3
AxisControl ==
    <<"prop:Mirror.use_axis[0]", "prop:Mirror.use_axis[1]", "prop:Mirror.use_axis[2]">>

\* lines 168-174
MirrorControls(mods) ==
    IF Truthy(modifiers_get(mods, "Mirror"))
    THEN <<"label:Mirror:">> \o AxisControl
    ELSE <<>>

\* lines 177-181
SubsurfControls(mods) ==
    IF Truthy(modifiers_get(mods, "Subdivision"))
    THEN <<"label:Subd Level:", "prop:Subdivision.levels">>
    ELSE <<>>

\* lines 184-197
SkinControls(mods) ==
    IF Truthy(modifiers_get(mods, "Skin"))
    THEN <<"separator", "label:Skin Data (Edit Mode):",
           "operator:object.skin_loose_mark_clear:MARK",
           "operator:object.skin_loose_mark_clear:CLEAR",
           "operator:object.skin_root_mark">>
    ELSE <<>>

\* a slip: the sections drawn without the test of line 163
SetupSection_NoGate(mods) ==
    <<"label:Modifiers">> \o MirrorControls(mods) \o SubsurfControls(mods)
    \o SkinControls(mods)
    \o <<"separator", "label:Finalize:", "operator:tcg.apply_bsphere_modifiers">>

\* lines 200-214
FinalizeSection ==
    <<"separator", "label:Finalize:", "operator:tcg.apply_bsphere_modifiers",
      "label:Shortcuts:", "label:Extrude: E", "label:Scale Radius: Ctrl + A",
      "label:Split Segment: Ctrl + R">>

\* lines 163-214
SetupSection(mods) ==
    IF has_bsphere_setup(mods)
    THEN <<"label:Modifiers">> \o MirrorControls(mods) \o SubsurfControls(mods)
         \o SkinControls(mods) \o FinalizeSection
    ELSE <<>>

\* lines 144-214: draw(self, context), as the list of what it lays out
draw ==
    CreationSection \o
    (IF context_object # 0 /\ objs[context_object].type = "MESH"
     THEN SetupSection(objs[context_object].mods)
     ELSE <<>>)

\* a slip: the shading switch of line 132 placed in draw()
Panel_Draw_SetsXRay ==
    /\ pc = "idle"
    /\ panel' = draw
    /\ show_xray' = TRUE
    /\ UNCHANGED <<objs, active, mode, steps, pc, locals, hist>>

\* a redraw of the panel
Panel_Draw ==
    /\ pc = "idle"
    /\ panel' = draw
    /\ UNCHANGED <<objs, active, mode, show_xray, steps, pc, locals, hist>>

Rendered(control) == control \in Range(panel)

\* an artist edit changes the active object and leaves a redraw pending
EditWith(newobj, newpair) ==
    /\ pc = "idle"
    /\ steps < MaxSteps
    /\ steps' = steps + 1
    /\ objs' = [objs EXCEPT ![active] = newobj]
    /\ panel' = <<>>
    /\ hist' = [hist EXCEPT !.pair = newpair]
    /\ UNCHANGED <<active, mode, show_xray, pc, locals>>

Edit(newobj) == EditWith(newobj, NoPair)

\* the stack with the modifier named base changed to m
WithNamed(mods, base, m) ==
    [mods EXCEPT ![CHOOSE i \in DOMAIN mods : mods[i].name = Named(base)] = m]

\* lines 172-174: a click on a toggle bound to mod_mirror.use_axis[k]
Panel_ToggleMirrorAxis ==
    \E k \in 1..3 :
        /\ Rendered(AxisControl[k])
        /\ LET m == modifiers_get(objs[active].mods, "Mirror")
           IN  Edit([objs[active] EXCEPT !.mods =
                        WithNamed(@, "Mirror",
                                  [m EXCEPT !.use_axis[k] = ~m.use_axis[k]])])

\* a slip: the field writes the typed value to both levels
Panel_SetSubdLevel_Both ==
    \E l \in Levels :
        /\ Rendered("prop:Subdivision.levels")
        /\ LET m == modifiers_get(objs[active].mods, "Subdivision")
           IN  /\ l # m.levels
               /\ Edit([objs[active] EXCEPT !.mods =
                           WithNamed(@, "Subdivision",
                                     [m EXCEPT !.levels = l, !.render_levels = l])])

\* line 181: a value typed into the field bound to mod_sub.levels
Panel_SetSubdLevel ==
    \E l \in Levels :
        /\ Rendered("prop:Subdivision.levels")
        /\ LET m == modifiers_get(objs[active].mods, "Subdivision")
           IN  /\ l # m.levels
               /\ Edit([objs[active] EXCEPT !.mods =
                           WithNamed(@, "Subdivision", [m EXCEPT !.levels = l])])

\* the host's object.skin_loose_mark_clear: MARK sets the loose flag of
\* every selected point, CLEAR clears it; unselected points are left alone
skin_loose_mark_clear(o, action) ==
    [o EXCEPT !.loose = IF action = "MARK" THEN @ \cup o.sel ELSE @ \ o.sel]

\* line 192: op_mark.action
op_mark_action == "MARK"

\* a slip: the second button copied from the first with its action kept
op_clear_action_Mark == "MARK"

\* line 195: op_clear.action
op_clear_action == "CLEAR"

\* lines 191-192: a click on Mark Loose; a Mark Loose / Clear Loose pair
\* starts, and the flags and the selection it starts on are remembered
Panel_MarkLoose ==
    /\ Rendered("operator:object.skin_loose_mark_clear:MARK")
    /\ mode = "EDIT_MESH"
    /\ EditWith(skin_loose_mark_clear(objs[active], op_mark_action),
                [stage |-> "marked", sel |-> objs[active].sel,
                 loose0 |-> objs[active].loose])

\* lines 194-195: a click on Clear Loose; it closes the pair when it
\* follows a Mark Loose on the same selection
Panel_ClearLoose ==
    /\ Rendered("operator:object.skin_loose_mark_clear:CLEAR")
    /\ mode = "EDIT_MESH"
    /\ EditWith(skin_loose_mark_clear(objs[active], op_clear_action),
                IF hist.pair.stage = "marked" /\ hist.pair.sel = objs[active].sel
                THEN [hist.pair EXCEPT !.stage = "cleared"]
                ELSE NoPair)

\* line 197: object.skin_root_mark() on the selection
Panel_MarkRoot ==
    /\ Rendered("operator:object.skin_root_mark")
    /\ mode = "EDIT_MESH"
    /\ Edit(skin_root_mark(objs[active]))

\* ------------------------------------------- the artist, outside the add-on
\* the artist deletes a stage from the active object's stack
User_DeleteModifier ==
    /\ ActiveIsMesh
    /\ \E i \in DOMAIN objs[active].mods :
           Edit([objs[active] EXCEPT !.mods = RemoveAt(@, i)])

\* the artist enters or leaves point-editing mode on the active mesh object
User_ToggleEditMode ==
    /\ pc = "idle"
    /\ steps < MaxSteps
    /\ steps' = steps + 1
    /\ ActiveIsMesh
    /\ mode' = IF mode = "OBJECT" THEN "EDIT_MESH" ELSE "OBJECT"
    /\ panel' = <<>>
    /\ UNCHANGED <<objs, active, show_xray, pc, locals>>
    /\ PairEnds

\* the artist makes another object active (object mode only)
User_SelectObject ==
    /\ pc = "idle"
    /\ steps < MaxSteps
    /\ steps' = steps + 1
    /\ mode = "OBJECT"
    /\ \E i \in DOMAIN objs : i # active /\ active' = i
    /\ panel' = <<>>
    /\ UNCHANGED <<objs, mode, show_xray, pc, locals>>
    /\ PairEnds

\* the artist changes the point selection in edit mode
User_SelectPoints ==
    /\ mode = "EDIT_MESH"
    /\ \E S \in SUBSET Verts(objs[active]) :
           /\ S # objs[active].sel
           /\ Edit([objs[active] EXCEPT !.sel = S])

\* the artist extrudes a selected point: a new point joined to it by an
\* edge, which becomes the selection
User_Extrude ==
    /\ mode = "EDIT_MESH"
    /\ \E v \in objs[active].sel :
           Edit([objs[active] EXCEPT !.nverts = @ + 1,
                                     !.edges = @ \cup {{v, objs[active].nverts + 1}},
                                     !.sel = {objs[active].nverts + 1}])

Next ==
    \/ Create_Invoke
    \/ Create_AddObject
    \/ Create_Mirror
    \/ Create_Skin
    \/ Create_Subdivision
    \/ Create_ModeSet
    \/ Create_SelectAll
    \/ Create_RootMark
    \/ Create_XRay
    \/ Fin_Invoke
    \/ Fin_Start
    \/ Fin_BakeSkip
    \/ Fin_BakeOk
    \/ Fin_BakeFail
    \/ Fin_SetVoxel
    \/ Fin_SetVoxelRaises
    \/ Fin_RemeshOk
    \/ Fin_RemeshFail
    \/ Return
    \/ Panel_Draw
    \/ Panel_ToggleMirrorAxis
    \/ Panel_SetSubdLevel
    \/ Panel_MarkLoose
    \/ Panel_ClearLoose
    \/ Panel_MarkRoot
    \/ User_DeleteModifier
    \/ User_ToggleEditMode
    \/ User_SelectObject
    \/ User_SelectPoints
    \/ User_Extrude

Spec == Init /\ [][Next]_vars

\* ------------------------------------------------------ claims: helpers
StageNames == {"Mirror", "Skin", "Subdivision"}

\* the named stages a stack holds
NamedIn(mods) == {b \in StageNames : Truthy(modifiers_get(mods, b))}

\* the stages the running Finalize tried to bake
Attempted == {calls[i].arg : i \in {j \in DOMAIN calls : calls[j].op = "modifier_apply"}}

RemeshSucceeded ==
    \E i \in DOMAIN calls : calls[i].op = "voxel_remesh" /\ calls[i].ok

RemeshFailed ==
    \E i \in DOMAIN calls : calls[i].op = "voxel_remesh" /\ ~calls[i].ok

ReportsOf(level) == {i \in DOMAIN reports : reports[i].level = level}

Warned == {reports[i].arg : i \in ReportsOf("WARNING")}

InfoSuccess == Report("INFO", "bSphere mesh applied and remeshed.", "")

FinalizeRunning == pc \in {"f_start", "f_bake", "f_voxel", "f_remesh", "f_done"}

PanelFresh == pc = "idle" /\ panel # <<>>

\* position of a host call in the log (0 when it was not made)
CallAt(op, arg) ==
    IF \E i \in DOMAIN calls : calls[i].op = op /\ calls[i].arg = arg
    THEN CHOOSE i \in DOMAIN calls : calls[i].op = op /\ calls[i].arg = arg
    ELSE 0

\* ------------------------------------------------------------------ C1
\* C1: a Finalize that started on a stack holding Mirror, Skin and
\* Subdivision, none of whose bakes failed and whose remesh did not fail,
\* ends with no stage named Mirror, Skin or Subdivision on the object, the
\* mesh remeshed at the supplied voxel size, no exception, and exactly one
\* report, the INFO success.
C1_AllBaked ==
    (/\ pc = "f_done"
     /\ NamedIn(snap.start) = StageNames
     /\ FailedBakes = {}
     /\ ~RemeshFailed)
    => /\ NamedIn(objs[obj].mods) = {}
       /\ RemeshSucceeded
       /\ objs[obj].remeshed = voxel_size
       /\ reports = <<InfoSuccess>>
       /\ raised = ""

C1_Witness ==
    /\ pc = "f_done"
    /\ NamedIn(snap.start) = StageNames
    /\ FailedBakes = {}
    /\ RemeshSucceeded
    /\ NamedIn(objs[obj].mods) = {}
    /\ objs[obj].baked = <<"MIRROR", "SKIN", "SUBSURF">>

\* ------------------------------------------------------------------ C2
\* C2: when Finalize ends, every named stage that was on the stack at its
\* start has been attempted, whatever failed before it; each failed bake
\* is reported as a WARNING naming that stage and nothing else is warned
\* about; and the named stages left on the stack are exactly those whose
\* bake failed.
C2_FailuresIsolated ==
    pc = "f_done"
    => /\ Attempted = NamedIn(snap.start)
       /\ Warned = FailedBakes
       /\ Cardinality(ReportsOf("WARNING")) = Cardinality(FailedBakes)
       /\ NamedIn(objs[obj].mods) = FailedBakes

C2_Witness ==
    /\ pc = "f_done"
    /\ NamedIn(snap.start) = StageNames
    /\ FailedBakes = {"Mirror"}
    /\ Warned = {"Mirror"}
    /\ objs[obj].baked = <<"SKIN", "SUBSURF">>
    /\ NamedIn(objs[obj].mods) = {"Mirror"}

\* ------------------------------------------------------------------ C3
\* C3: when the voxel-remesh call of Finalize fails, the stack and the mesh
\* geometry are what the bake loop left, the last report is the ERROR, no
\* INFO is reported, and no exception leaves execute().
C3_RemeshFailureLeavesBake ==
    (pc = "f_done" /\ RemeshFailed)
    => /\ objs[obj].mods = snap.mods
       /\ Geometry(objs[obj]) = snap.geom
       /\ reports # <<>>
       /\ reports[Len(reports)].level = "ERROR"
       /\ Cardinality(ReportsOf("ERROR")) = 1
       /\ ReportsOf("INFO") = {}
       /\ raised = ""

C3_Witness ==
    /\ pc = "f_done"
    /\ RemeshFailed
    /\ objs[obj].baked = <<"MIRROR", "SUBSURF">>
    /\ NamedIn(objs[obj].mods) = {"Skin"}
    /\ ReportsOf("ERROR") # {}

\* ------------------------------------------------------------------ C4
\* the stack Create is meant to leave, by name, order and parameters
CreatedStack ==
    <<[name |-> Named("Mirror"), type |-> "MIRROR",
       use_axis |-> <<TRUE, FALSE, FALSE>>, symmetry |-> FFF,
       levels |-> 0, render_levels |-> 0],
      [name |-> Named("Skin"), type |-> "SKIN",
       use_axis |-> FFF, symmetry |-> <<FALSE, FALSE, FALSE>>,
       levels |-> 0, render_levels |-> 0],
      [name |-> Named("Subdivision"), type |-> "SUBSURF",
       use_axis |-> FFF, symmetry |-> FFF,
       levels |-> 2, render_levels |-> 2]>>

\* C4: every execution of Create yields an object whose mesh has exactly
\* one point, no edges and no faces, and whose stack is exactly Mirror
\* (X only), Skin (no symmetry), Subdivision (levels 2 and 2), in that
\* order and under those names.
C4_CreateYieldsBase ==
    pc = "c_done"
    => /\ objs[obj].nverts = 1
       /\ objs[obj].edges = {}
       /\ objs[obj].nfaces = 0
       /\ objs[obj].mods = CreatedStack

\* ------------------------------------------------------------------ C5
\* C5: when Create returns, the object it worked on is the active object
\* and is in point-editing mode, every point of it is selected, the
\* created point among them, and the created point is root; the three
\* stages were appended before the mode switch, the mode switch came
\* before select-all and select-all before the root mark, and until the
\* root mark ran the created point was neither root nor, before
\* select-all, selected.
C5_CreateLeavesEditRoot ==
    /\ pc = "c_done"
       => /\ mode = "EDIT_MESH"
          /\ active = obj
          /\ objs[obj].sel = Verts(objs[obj])
          /\ newpt \in objs[obj].sel
          /\ newpt \in objs[obj].root
          /\ 0 < CallAt("modifiers.new", "Mirror")
          /\ CallAt("modifiers.new", "Mirror") < CallAt("modifiers.new", "Skin")
          /\ CallAt("modifiers.new", "Skin") < CallAt("modifiers.new", "Subdivision")
          /\ CallAt("modifiers.new", "Subdivision") < CallAt("mode_set", "EDIT")
          /\ CallAt("mode_set", "EDIT") < CallAt("select_all", "SELECT")
          /\ CallAt("select_all", "SELECT") < CallAt("skin_root_mark", "")
    /\ pc \in {"c_select", "c_root", "c_xray", "c_done"}
       => /\ mode = "EDIT_MESH"
          /\ Len(objs[obj].mods) >= 3
          /\ LET n == Len(objs[obj].mods)
             IN  /\ objs[obj].mods[n - 2].type = "MIRROR"
                 /\ objs[obj].mods[n - 1].type = "SKIN"
                 /\ objs[obj].mods[n].type = "SUBSURF"
    /\ pc \in {"c_mirror", "c_skin", "c_sub", "c_mode", "c_select"}
       => newpt \notin objs[obj].sel
    /\ pc \in {"c_mirror", "c_skin", "c_sub", "c_mode", "c_select", "c_root"}
       => newpt \notin objs[obj].root

C5_Witness ==
    /\ pc = "c_done"
    /\ mode = "EDIT_MESH"
    /\ objs[obj].nverts = 1
    /\ objs[obj].sel = {1}
    /\ objs[obj].root = {1}
    /\ objs[obj].mods = CreatedStack

\* ------------------------------------------------------------------ C6
MirrorPresent == Truthy(modifiers_get(objs[active].mods, "Mirror"))

SkinPresent == Truthy(modifiers_get(objs[active].mods, "Skin"))

SubdivisionPresent == Truthy(modifiers_get(objs[active].mods, "Subdivision"))

MirrorTogglesRendered == \A k \in 1..3 : Rendered(AxisControl[k])

NoMirrorToggleRendered == \A k \in 1..3 : ~Rendered(AxisControl[k])

SkinActions ==
    {"operator:object.skin_loose_mark_clear:MARK",
     "operator:object.skin_loose_mark_clear:CLEAR",
     "operator:object.skin_root_mark"}

SkinActionsRendered == \A c \in SkinActions : Rendered(c)

NoSkinActionRendered == \A c \in SkinActions : ~Rendered(c)

\* the box of lines 164-165, drawn exactly when has_bsphere_setup is true
SetupBoxRendered == Rendered("label:Modifiers")

\* what C6 says of Mirror, of Skin and of hasSetup
C6_MirrorSkinSetup ==
    /\ IF MirrorPresent THEN MirrorTogglesRendered ELSE NoMirrorToggleRendered
    /\ IF SkinPresent THEN SkinActionsRendered ELSE NoSkinActionRendered
    /\ SetupBoxRendered <=> (SkinPresent \/ MirrorPresent)

\* C6 as stated: on a mesh-typed active object, in each of the 8 presence
\* combinations, the Mirror toggles are rendered iff Mirror is present, the
\* Subdivision level control iff Subdivision is present, the Skin actions
\* iff Skin is present, and hasSetup holds iff Skin or Mirror is present.
C6_AsStated ==
    (PanelFresh /\ ActiveIsMesh)
    => /\ C6_MirrorSkinSetup
       /\ Rendered("prop:Subdivision.levels") <=> SubdivisionPresent

\* C6 as amended: the same, except that the Subdivision level control is
\* rendered iff Subdivision is present and Skin or Mirror is present too.
C6_Amended ==
    (PanelFresh /\ ActiveIsMesh)
    => /\ C6_MirrorSkinSetup
       /\ Rendered("prop:Subdivision.levels")
            <=> (SubdivisionPresent /\ (SkinPresent \/ MirrorPresent))

C6_Witness ==
    /\ PanelFresh
    /\ ActiveIsMesh
    /\ SubdivisionPresent
    /\ ~SkinPresent
    /\ ~MirrorPresent
    /\ ~Rendered("prop:Subdivision.levels")

\* ------------------------------------------------------------------ C7
FinalizeRendered == Rendered("operator:tcg.apply_bsphere_modifiers")

\* C7: a drawn panel always holds the Create action; it holds the Finalize
\* action exactly when there is an active object, it is mesh-typed and it
\* has a stage named Skin or one named Mirror; in every other case the
\* panel is the creation section and nothing else.
C7_FinalizeOnlyWithSetup ==
    PanelFresh
    => /\ Rendered("operator:mesh.primitive_bsphere_add")
       /\ FinalizeRendered <=> (ActiveIsMesh /\ (SkinPresent \/ MirrorPresent))
       /\ ~(ActiveIsMesh /\ (SkinPresent \/ MirrorPresent)) => panel = CreationSection

C7_Witness ==
    /\ PanelFresh
    /\ ActiveIsMesh
    /\ MirrorPresent
    /\ ~SkinPresent
    /\ FinalizeRendered

\* a mesh with neither Skin nor Mirror gets the Create action alone
C7_WitnessPlain ==
    /\ PanelFresh
    /\ ActiveIsMesh
    /\ SubdivisionPresent
    /\ panel = CreationSection

\* ------------------------------------------------------------------ C8
\* C8: no invocation of Finalize that poll() admits lets a failure escape:
\* execute() ends without an exception, and every failed host call is
\* reported as a WARNING (a bake) or an ERROR (the remesh).
C8_NoFailureEscapes ==
    pc = "f_done"
    => /\ raised = ""
       /\ Warned = FailedBakes
       /\ RemeshFailed => ReportsOf("ERROR") # {}

\* ------------------------------------------------------------------ C9
\* C9: Create starts executing only in object mode; in particular not in
\* the point-editing mode a previous Create left.
C9_CreateOnlyInObjectMode == pc = "c_add" => mode = "OBJECT"

\* ----------------------------------------------------------------- C10
\* C10: Finalize can be invoked exactly when there is an active object and
\* the context is in object mode; it cannot be invoked in the state Create
\* leaves behind; and every step of a running Finalize works on an object
\* in object mode.
C10_FinalizeOnlyInObjectMode ==
    /\ (pc = "idle" /\ steps < MaxSteps)
       => (ENABLED Fin_Invoke <=> (active # 0 /\ mode = "OBJECT"))
    /\ pc = "c_done" => ~ENABLED Fin_Invoke /\ ~OBJECT_OT_ApplyBSphereModifiers_poll
    /\ FinalizeRunning => (active # 0 /\ mode = "OBJECT")
    /\ (FinalizeRunning /\ pc # "f_start") => obj = active

C10_Witness ==
    /\ pc = "f_remesh"
    /\ objs[obj].type = "MESH"
    /\ mode = "OBJECT"
    /\ objs[obj].nverts = 2

\* ----------------------------------------------------------------- C11
\* a Mark Loose followed by a Clear Loose on the same selection has just
\* been applied to the active object
PairApplied == pc = "idle" /\ hist.pair.stage = "cleared"

\* C11 as stated: after Mark Loose then Clear Loose on the same selected
\* points, every point's loose flag equals its value before the pair,
\* whatever the flags were before.
C11_PairRestoresFlags ==
    PairApplied => objs[active].loose = hist.pair.loose0

\* C11, amended: after Mark Loose then Clear Loose on the same selected
\* points, no selected point is loose and every unselected point's loose
\* flag equals its value before the pair; the flags equal those before the
\* pair exactly when no selected point was loose before it.
C11_PairClearsSelection ==
    PairApplied
    => /\ objs[active].loose = hist.pair.loose0 \ hist.pair.sel
       /\ objs[active].sel = hist.pair.sel
       /\ (objs[active].loose = hist.pair.loose0
           <=> hist.pair.loose0 \cap hist.pair.sel = {})

C11_Witness ==
    /\ PairApplied
    /\ hist.pair.sel # {}
    /\ hist.pair.loose0 \cap hist.pair.sel # {}
    /\ objs[active].loose \cap hist.pair.sel = {}

\* ----------------------------------------------------------------- C12
\* positions in the log of the host calls of one kind
CallsOf(op) == {i \in DOMAIN calls : calls[i].op = op}

\* place of a stage name in the bake order
Rank(base) == CHOOSE k \in DOMAIN modifiers_to_apply : modifiers_to_apply[k] = base

\* the order of the steps a finished Finalize has made: the shading first,
\* the bakes of the stages present at the start in the order Mirror, Skin,
\* Subdivision, then the voxel size, then the remesh, once and last
StepsInOrder ==
    /\ \A i \in CallsOf("show_xray") : i = 1
    /\ space = "VIEW_3D" => CallsOf("show_xray") = {1}
    /\ Attempted = NamedIn(snap.start)
    /\ \A i, j \in CallsOf("modifier_apply") :
           i < j => Rank(calls[i].arg) < Rank(calls[j].arg)
    /\ CallsOf("remesh_voxel_size") = {Len(calls) - 1}
    /\ \A i \in CallsOf("remesh_voxel_size") :
           /\ calls[i].val = voxel_size
           /\ objs[obj].remesh_voxel_size = voxel_size
           /\ \A j \in CallsOf("modifier_apply") : j < i
    /\ CallsOf("voxel_remesh") = {Len(calls)}

\* C12: every Finalize execution makes its steps in the fixed order:
\* shading off, the bakes of the present stages in the order Mirror, Skin,
\* Subdivision, the voxel size set to the supplied value after the last
\* bake attempt and before the remesh, and the remesh exactly once, whether
\* or not a bake failed.
C12_FixedOrder == pc = "f_done" => StepsInOrder

\* the same on a mesh-typed object, where it holds
C12_FixedOrderOnMesh ==
    (pc = "f_done" /\ objs[obj].type = "MESH") => StepsInOrder

C12_WitnessOnMesh ==
    /\ pc = "f_done"
    /\ objs[obj].type = "MESH"
    /\ FailedBakes = {"Skin"}
    /\ Attempted = StageNames
    /\ space = "VIEW_3D"

\* ----------------------------------------------------------------- C13
\* the remesh is about to be invoked
AtRemesh == pc = "f_remesh"

\* C13 as stated: at the moment the voxel remesh is invoked, no stage
\* named Mirror, Skin or Subdivision remains on the object.
C13_NoStageAtRemesh == AtRemesh => NamedIn(objs[obj].mods) = {}

\* C13, amended: at the moment the voxel remesh is invoked, the bake loop
\* is over: a bake was attempted for every stage named Mirror, Skin or
\* Subdivision that was present, and the stages of these names that remain
\* on the object are exactly those whose bake failed; none remains when no
\* bake failed.
C13_OnlyFailedStagesAtRemesh ==
    AtRemesh
    => /\ mod_i = Len(modifiers_to_apply)
       /\ Attempted = NamedIn(snap.start)
       /\ NamedIn(objs[obj].mods) = FailedBakes
       /\ FailedBakes = {} => NamedIn(objs[obj].mods) = {}
       /\ CallsOf("voxel_remesh") = {}

C13_Witness ==
    /\ AtRemesh
    /\ NamedIn(snap.start) = StageNames
    /\ FailedBakes = {"Mirror", "Subdivision"}
    /\ NamedIn(objs[obj].mods) = {"Mirror", "Subdivision"}

\* ----------------------------------------------------------------- C14
\* what a finished Finalize did about the stages absent at its start:
\* bakes attempted for exactly the present ones, no warning for an absent
\* one, no exception, and the voxel size set and the remesh invoked all
\* the same
AbsentStagesTolerated ==
    /\ Attempted = NamedIn(snap.start)
    /\ Warned \subseteq NamedIn(snap.start)
    /\ raised = ""
    /\ Cardinality(CallsOf("remesh_voxel_size")) = 1
    /\ objs[obj].remesh_voxel_size = voxel_size
    /\ Cardinality(CallsOf("voxel_remesh")) = 1

\* C14: whichever of Mirror, Skin and Subdivision the active object holds,
\* Finalize attempts a bake for exactly the present stages, reports no
\* warning for an absent one, does not fail because a stage is missing,
\* and still sets the voxel size and invokes the remesh.
C14_ToleratesAbsentStages == pc = "f_done" => AbsentStagesTolerated

\* the same on a mesh-typed object, where it holds
C14_ToleratesAbsentStagesOnMesh ==
    (pc = "f_done" /\ objs[obj].type = "MESH") => AbsentStagesTolerated

C14_WitnessOnMesh ==
    /\ pc = "f_done"
    /\ objs[obj].type = "MESH"
    /\ NamedIn(snap.start) = {"Skin"}
    /\ Attempted = {"Skin"}

\* ----------------------------------------------------------------- C15
\* the Subdivision-type stages of a stack
SubsurfStages(mods) == {i \in DOMAIN mods : mods[i].type = "SUBSURF"}

\* Create has just returned: the stage it appended last is its Subdivision
\* stage, at interactive level 2 and render level 2
CreatedSubdivisionAtTwo ==
    LET mods == objs[obj].mods
    IN  /\ mods # <<>>
        /\ mods[Len(mods)].type = "SUBSURF"
        /\ mods[Len(mods)].name.base = "Subdivision"
        /\ mods[Len(mods)].levels = CreateLevels
        /\ mods[Len(mods)].render_levels = CreateRenderLevels
        /\ mods[Len(mods)].levels = mods[Len(mods)].render_levels

\* a step that changes the interactive level of the active object's
\* Subdivision stage from the idle panel
SubdLevelEdited ==
    /\ pc = "idle" /\ pc' = "idle"
    /\ ActiveIsMesh
    /\ active' = active
    /\ Truthy(modifiers_get(objs[active].mods, "Subdivision"))
    /\ Truthy(modifiers_get(objs'[active].mods, "Subdivision"))
    /\ modifiers_get(objs'[active].mods, "Subdivision").levels
         # modifiers_get(objs[active].mods, "Subdivision").levels

\* such a step changes that level and nothing else of the scene
OnlySubdLevelChanged ==
    LET m == modifiers_get(objs[active].mods, "Subdivision")
        l == modifiers_get(objs'[active].mods, "Subdivision").levels
    IN  /\ objs' = [objs EXCEPT ![active].mods =
                        WithNamed(@, "Subdivision", [m EXCEPT !.levels = l])]
        /\ modifiers_get(objs'[active].mods, "Subdivision").render_levels
             = m.render_levels
        /\ UNCHANGED <<mode, show_xray>>

\* C15: right after Create the Subdivision stage's render level equals its
\* interactive level, both 2; a Subdivision stage that is on a stack has
\* render level 2 in every later state; and an edit through the panel's
\* Subdivision control changes the interactive level only.
C15_RenderLevelStaysTwo ==
    /\ [](/\ pc = "c_done" => CreatedSubdivisionAtTwo
          /\ \A o \in DOMAIN objs : \A i \in SubsurfStages(objs[o].mods) :
                 objs[o].mods[i].render_levels = CreateRenderLevels)
    /\ [][SubdLevelEdited => OnlySubdLevelChanged]_vars

C15_Witness ==
    /\ PanelFresh
    /\ ActiveIsMesh
    /\ Truthy(modifiers_get(objs[active].mods, "Subdivision"))
    /\ modifiers_get(objs[active].mods, "Subdivision").levels = 3
    /\ modifiers_get(objs[active].mods, "Subdivision").render_levels = 2

\* ----------------------------------------------------------------- C16
\* a step that lays the panel out anew
Redrawn == panel' # panel /\ panel' # <<>>

\* a step that changes a parameter of a stage that is on a stack before
\* and after it
ParameterChanged ==
    \E o \in DOMAIN objs :
        /\ o \in DOMAIN objs'
        /\ \E i \in DOMAIN objs[o].mods : \E j \in DOMAIN objs'[o].mods :
               /\ objs[o].mods[i].name = objs'[o].mods[j].name
               /\ objs[o].mods[i] # objs'[o].mods[j]

\* the step is an edit forwarded by one rendered control, and the one
\* parameter that control is bound to is all that changed
OneBoundParameterEdited ==
    /\ pc = "idle" /\ pc' = "idle"
    /\ ActiveIsMesh
    /\ UNCHANGED <<active, mode, show_xray>>
    /\ \/ \E k \in 1..3 :
              /\ Rendered(AxisControl[k])
              /\ LET m == modifiers_get(objs[active].mods, "Mirror")
                 IN  objs' = [objs EXCEPT ![active].mods =
                                 WithNamed(@, "Mirror",
                                     [m EXCEPT !.use_axis[k] = ~m.use_axis[k]])]
       \/ \E l \in Levels :
              /\ Rendered("prop:Subdivision.levels")
              /\ LET m == modifiers_get(objs[active].mods, "Subdivision")
                 IN  objs' = [objs EXCEPT ![active].mods =
                                 WithNamed(@, "Subdivision", [m EXCEPT !.levels = l])]

\* C16: a redraw of the panel changes nothing but the panel: stacks, stage
\* parameters, point flags, mode and shading are the same after it as
\* before; the controls a drawn panel shows are those draw() gives for the
\* current state, so that two redraws on the same state show the same
\* controls; and a stage parameter changes only by an edit forwarded
\* through a rendered bound control, which changes that parameter alone.
C16_RedrawChangesNothing ==
    /\ [](PanelFresh => panel = draw)
    /\ [][Redrawn => (panel' = draw /\ UNCHANGED <<objs, active, mode, show_xray>>)]_vars
    /\ [][ParameterChanged => OneBoundParameterEdited]_vars

C16_Witness ==
    /\ PanelFresh
    /\ ActiveIsMesh
    /\ MirrorPresent
    /\ modifiers_get(objs[active].mods, "Mirror").use_axis = <<TRUE, TRUE, FALSE>>
    /\ MirrorTogglesRendered

\* ----------------------------------------------------------------- C17
\* an operator is executing in a region that is not a 3D viewport
RunningOutsideViewport == pc # "idle" /\ space # "VIEW_3D"

\* C17: when the invoking region is a 3D viewport, show-occluded shading
\* is on when Create returns and off when Finalize ends, whichever bakes
\* failed, whether or not the remesh failed and even when an exception
\* ended the execution; in any other region no step of either operator
\* changes the flag.
C17_ShadingFollowsOperators ==
    /\ []((pc = "c_done" /\ space = "VIEW_3D") => show_xray)
    /\ []((pc = "f_done" /\ space = "VIEW_3D") => ~show_xray)
    /\ []((pc \in {"f_bake", "f_voxel", "f_remesh"} /\ space = "VIEW_3D")
          => ~show_xray)
    /\ [][RunningOutsideViewport => show_xray' = show_xray]_vars

C17_Witness ==
    /\ pc = "f_done"
    /\ space = "VIEW_3D"
    /\ ~show_xray
    /\ FailedBakes = {"Skin"}
    /\ RemeshFailed

\* ----------------------------------------------------------------- C18
\* the panel, drawn for object o, offers neither Finalize nor a stage
\* control: it is the creation section alone
NothingOfferedFor(o) == (PanelFresh /\ active = o) => panel = CreationSection

\* C18 as stated: once a Finalize execution on an object has completed,
\* then in every later state reached without a new Create on it the panel
\* offers neither Finalize nor any stage control for that object.
C18_FinalizeTerminal == \A o \in hist.done : NothingOfferedFor(o)

\* C18, amended: once a Finalize execution on an object has completed in
\* which neither the Mirror bake nor the Skin bake failed, then in every
\* later state reached without a new Create on it the object holds no
\* stage named Mirror or Skin and the panel offers neither Finalize nor
\* any stage control for it, whatever redraws, edits and Finalize attempts
\* follow.
C18_FinalizeTerminalUnlessBakeFailed ==
    \A o \in hist.clean :
        /\ NamedIn(objs[o].mods) \cap {"Mirror", "Skin"} = {}
        /\ NothingOfferedFor(o)

\* a Finalize whose Subdivision bake failed has completed: the stage
\* remains, and the panel offers nothing for the object
C18_Witness ==
    /\ PanelFresh
    /\ active \in hist.clean
    /\ objs[active].type = "MESH"
    /\ objs[active].remeshed # 0
    /\ NamedIn(objs[active].mods) = {"Subdivision"}
    /\ panel = CreationSection

\* a Finalize whose Skin bake failed has completed: the panel still offers
\* Finalize and the Skin actions
C18_WitnessRetry ==
    /\ PanelFresh
    /\ active \in hist.done \ hist.clean
    /\ NamedIn(objs[active].mods) = {"Skin"}
    /\ FinalizeRendered
    /\ SkinActionsRendered

\* ----------------------------------------------------------------- C19
\* a finished Finalize got as far as the remesh call
RemeshReached == pc = "f_done" /\ CallsOf("voxel_remesh") # {}

\* the reports that end an execution: the INFO success and the remesh ERROR
TerminalReports == ReportsOf("INFO") \cup ReportsOf("ERROR")

\* the bakes that raised, as calls
FailedBakeCalls == {i \in CallsOf("modifier_apply") : ~calls[i].ok}

\* exactly one terminal report, the last report made, and as many WARNING
\* reports as failed bakes
OneTerminalReport ==
    /\ TerminalReports = {Len(reports)}
    /\ ~(ReportsOf("INFO") # {} /\ ReportsOf("ERROR") # {})
    /\ Cardinality(ReportsOf("WARNING")) = Cardinality(FailedBakeCalls)

\* C19 as stated: a Finalize execution that reaches the remesh step makes
\* exactly one terminal report, the INFO success or the remesh ERROR; it
\* makes as many WARNING reports as bakes failed; and it reports the INFO
\* success only when every present stage was baked and removed.
C19_InfoOnlyWhenAllBaked ==
    RemeshReached
    => /\ OneTerminalReport
       /\ ReportsOf("INFO") # {}
            => (FailedBakes = {} /\ NamedIn(objs[obj].mods) = {})

\* C19, amended: a Finalize execution that reaches the remesh step makes
\* exactly one terminal report, the INFO success or the remesh ERROR; it
\* makes as many WARNING reports as bakes failed; and it reports the INFO
\* success exactly when the remesh call succeeded and the ERROR exactly
\* when it failed, whether or not a bake failed before.
C19_InfoIffRemeshSucceeded ==
    RemeshReached
    => /\ OneTerminalReport
       /\ ReportsOf("INFO") # {} <=> RemeshSucceeded
       /\ ReportsOf("ERROR") # {} <=> RemeshFailed
       /\ \A i \in ReportsOf("INFO") : reports[i] = InfoSuccess

C19_Witness ==
    /\ RemeshReached
    /\ RemeshSucceeded
    /\ FailedBakes = {"Mirror", "Skin"}
    /\ Cardinality(ReportsOf("WARNING")) = 2
    /\ reports[Len(reports)] = InfoSuccess
    /\ NamedIn(objs[obj].mods) = {"Mirror", "Skin"}
====
